---- MODULE Spec2Model ----
(***************************************************************************)
(* Diff/annotation alignment engine of the review page generator.          *)
(*                                                                         *)
(* Render.parse_diff_to_html_with_expand (src/render.py) turns the unified *)
(* diff of one file, the full new file and the scan results into the rows  *)
(* of one table; the expand-icon click handler of Render.generate_js then  *)
(* inserts context rows into that table on demand.                         *)
(*                                                                         *)
(* A diff line is modelled by what the code reads of it: its leading       *)
(* characters and, for a line matching the hunk header pattern, the        *)
(* numbers the pattern captures.  A finding is modelled by its line number *)
(* (one finding per (file, line), as spec.md section 4.3 gives the aligner *)
(* its input); the file is modelled by its number of lines.                *)
(***************************************************************************)
EXTENDS Integers, Sequences, FiniteSets, TLC

VARIABLES
    diff_text,       \* the lines of diff_text.split('\n')
    full_len,        \* len(full_lines)
    scan_results,    \* the line numbers of the findings of the file
    pc,              \* position in parse_diff_to_html_with_expand / the page
    all_hunks,       \* list of real_diff and scan_context hunks
    covered_lines,   \* set of new-file line numbers covered by real hunks
    scan_idx,        \* index of the next finding of scan_lines to align
    hunk_idx,        \* index of the next hunk of all_hunks to render
    prev_hunk_end,   \* prev_hunk_end of the render loop
    html_lines,      \* the table rows emitted by the renderer
    table,           \* the rows of the table in the browser (DOM)
    fullClicks,      \* number of full-range expand buttons clicked so far
    lastClick,       \* the last expand click: its window and what it did
    hash_seed,       \* the seed of str hashes of the Python process
    render_no,       \* 1 in the first render of the inputs, 2 in the second
    first_html,      \* the rows the first render of the inputs returned
    panel,           \* the items of the scan results panel of the page
    json_files,      \* load_scan_results: the JSON files read so far
    json_idx,        \* index of the next JSON file of the directory
    load_results,    \* the scan_results list load_scan_results builds
    last_loaded,     \* the findings appended for the last JSON file
    load_pc,         \* position in load_scan_results
    commit_hashes,   \* generate: what the commands of each commit will do
    commit_idx,      \* index of the commit whose page is being generated
    file_idx,        \* index of the next changed file of that commit
    generated_files, \* the commits whose review page is written
    run_pc,          \* position in generate
    line_i,          \* parse_diff_to_html: index of the next line of the diff
    in_header,       \* in_header of parse_diff_to_html
    old_line_num,    \* old_line_num of parse_diff_to_html
    new_line_num,    \* new_line_num of parse_diff_to_html
    diff_html,       \* the elements parse_diff_to_html has appended
    html_pc          \* position in parse_diff_to_html

\* the process and the page around parse_diff_to_html_with_expand
pageVars == <<hash_seed, render_no, first_html, panel>>

\* the variables of load_scan_results
loadVars == <<json_files, json_idx, load_results, last_loaded, load_pc>>

\* the variables of generate
runVars == <<commit_hashes, commit_idx, file_idx, generated_files, run_pc>>

\* the variables of parse_diff_to_html
htmlVars == <<line_i, in_header, old_line_num, new_line_num, diff_html, html_pc>>

vars == <<diff_text, full_len, scan_results, pc, all_hunks, covered_lines,
          scan_idx, hunk_idx, prev_hunk_end, html_lines, table, fullClicks,
          lastClick, pageVars, loadVars, runVars, htmlVars>>

(***************************************************************************)
(* Bounds of the model.                                                    *)
(***************************************************************************)
MaxLines == 12       \* longest full file
MaxFindings == 2     \* most findings of one file
MaxDiffLen == 3      \* most lines of a diff text
MaxJsonFiles == 2    \* most JSON files of the scan results directory
MaxIssues == 2       \* most raw issues of the scan results directory
MaxCommits == 3      \* most commits of one run of generate
MaxFiles == 2        \* most changed files of a commit

(***************************************************************************)
(* Program constants.                                                      *)
(***************************************************************************)
ContextRadius == 10  \* scan_line - 10 .. scan_line + 10
ExpandStep == 9      \* contextEnd - 9 / contextStart + 9: ten lines a click
Blank == -1          \* an empty <td class='diff-line-num'></td>
CidModulus == 1000000  \* hash(...) % 1000000

Max(a, b) == IF a >= b THEN a ELSE b
Min(a, b) == IF a <= b THEN a ELSE b

(***************************************************************************)
(* Diff lines.                                                             *)
(***************************************************************************)
DiffLine(k, o, n, hc, c) ==
    [k |-> k, old_start |-> o, new_start |-> n, has_count |-> hc, new_count |-> c]

\* "@@ -1,2 +1,2 @@": a hunk at the top of the file;
\* "@@ -11 +12 @@": a hunk of one line at the end of the longest file, its
\*   count omitted, its old numbers one behind its new numbers;
\* "@@ -4,1 +3,0 @@": a pure deletion; "@@ -1,2 +0,0 @@": a deleted file
Headers ==
    { DiffLine("hdr", 1, 1, TRUE, 2),
      DiffLine("hdr", MaxLines - 1, MaxLines, FALSE, 0),
      DiffLine("hdr", 4, 3, TRUE, 0),
      DiffLine("hdr", 1, 0, TRUE, 0) }

\* a line starting with "@@" that the header pattern does not match, an
\* added, a removed and a context line, and any other line ("\ No newline
\* at end of file", "Index: ...", the empty last line of split('\n'))
BodyLines ==
    { DiffLine(k, 0, 0, FALSE, 0) : k \in {"bad", "add", "del", "ctx", "other"} }

DiffLines == Headers \cup BodyLines

SeqsUpTo(S, n) == UNION { [1..k -> S] : k \in 0..n }

\* the diff texts of at most MaxDiffLen lines; the lines before the first
\* "@@" line (the "Index:" preamble of a diff) are of kind other
DiffTexts ==
    { d \in SeqsUpTo(DiffLines, MaxDiffLen) :
        d = <<>> \/ d[1].k \notin {"add", "del", "ctx"} }

FindingSets(k) ==
    { F \in SUBSET (1..(MaxLines + 1)) : Cardinality(F) <= k }

\* line.startswith('@@')
StartsWithAtAt(l) == l.k \in {"hdr", "bad"}

\* re.match(r'^@@ -(\d+)(?:,(\d+))? \+(\d+)(?:,(\d+))? @@', line)
HeaderMatch(l) == l.k = "hdr"

\* int(match.group('new_count') or '1')
NewCountOf(l) == IF l.has_count THEN l.new_count ELSE 1

(***************************************************************************)
(* Hunks.                                                                  *)
(***************************************************************************)
RealHunk(i, l) ==
    [type |-> "real_diff", diff_idx |-> i, new_start |-> l.new_start,
     new_count |-> NewCountOf(l), scan_line |-> 0]

ScanHunk(seg_start, seg_end, scan_line) ==
    [type |-> "scan_context", diff_idx |-> 0, new_start |-> seg_start,
     new_count |-> seg_end - seg_start + 1, scan_line |-> scan_line]

HunkEnd(h) == h.new_start + h.new_count - 1

\* ParseFrom in which a line that starts with "@@" and does not match the
\* header pattern ends the loop
RECURSIVE ParseFromStoppingAtBad(_, _)
ParseFromStoppingAtBad(lines, i) ==
    IF i > Len(lines) THEN <<>>
    ELSE IF StartsWithAtAt(lines[i]) /\ ~HeaderMatch(lines[i]) THEN <<>>
    ELSE IF HeaderMatch(lines[i])
         THEN <<RealHunk(i, lines[i])>> \o ParseFromStoppingAtBad(lines, i + 1)
         ELSE ParseFromStoppingAtBad(lines, i + 1)

\* the while loop over the lines of the diff: one hunk per matching header
RECURSIVE ParseFrom(_, _)
ParseFrom(lines, i) ==
    IF i > Len(lines) THEN <<>>
    ELSE IF StartsWithAtAt(lines[i]) /\ HeaderMatch(lines[i])
         THEN <<RealHunk(i, lines[i])>> \o ParseFrom(lines, i + 1)
         ELSE ParseFrom(lines, i + 1)

ParseHunks(lines) == ParseFrom(lines, 1)

(***************************************************************************)
(* Coverage: the new-file line numbers of the added and context lines of   *)
(* the real hunks.                                                         *)
(***************************************************************************)
\* HunkCoverFrom in which a removed line advances cur_new as well
RECURSIVE HunkCoverCountingRemoved(_, _, _)
HunkCoverCountingRemoved(lines, j, cur_new) ==
    IF j > Len(lines) \/ StartsWithAtAt(lines[j]) THEN {}
    ELSE IF lines[j].k \in {"add", "ctx"}
         THEN {cur_new} \cup HunkCoverCountingRemoved(lines, j + 1, cur_new + 1)
         ELSE IF lines[j].k = "del"
         THEN HunkCoverCountingRemoved(lines, j + 1, cur_new + 1)
         ELSE HunkCoverCountingRemoved(lines, j + 1, cur_new)

\* the inner while loop: from line j up to the next line starting with "@@"
RECURSIVE HunkCoverFrom(_, _, _)
HunkCoverFrom(lines, j, cur_new) ==
    IF j > Len(lines) \/ StartsWithAtAt(lines[j]) THEN {}
    ELSE IF lines[j].k \in {"add", "ctx"}
         THEN {cur_new} \cup HunkCoverFrom(lines, j + 1, cur_new + 1)
         ELSE HunkCoverFrom(lines, j + 1, cur_new)

HunkCover(lines, h) ==
    HunkCoverFrom(lines, h.diff_idx + 1, lines[h.diff_idx].new_start)

CoveredLines(lines, hunks) ==
    UNION { HunkCover(lines, hunks[i]) :
              i \in { n \in 1..Len(hunks) : hunks[n].type = "real_diff" } }

(***************************************************************************)
(* Finding aligner: the segments of the context window of one finding.     *)
(***************************************************************************)
\* sorted(S)
RECURSIVE SortedSeq(_)
SortedSeq(S) ==
    IF S = {} THEN <<>>
    ELSE LET m == CHOOSE x \in S : \A y \in S : x <= y
         IN <<m>> \o SortedSeq(S \ {m})

ContextStart(scan_line) == Max(1, scan_line - ContextRadius)

\* ContextEnd that is not cut at the last line of the file
ContextEndUncut(scan_line, n) == scan_line + ContextRadius

ContextEnd(scan_line, n) == Min(n, scan_line + ContextRadius)

\* GapSegments with "last_covered = covered_line" left out
RECURSIVE GapSegmentsStuck(_, _, _, _)
GapSegmentsStuck(cov, k, last_covered, context_end) ==
    IF k > Len(cov) THEN <<>>
    ELSE LET covered_line == cov[k]
             seg_start == last_covered + 1
             seg_end == covered_line - 1
             here == IF covered_line > last_covered + 1
                        /\ seg_start <= context_end /\ seg_start <= seg_end
                     THEN << <<seg_start, Min(seg_end, context_end)>> >>
                     ELSE <<>>
         IN here \o GapSegmentsStuck(cov, k + 1, last_covered, context_end)

\* the for loop over overlapping_covered + [context_end + 1]
RECURSIVE GapSegments(_, _, _, _)
GapSegments(cov, k, last_covered, context_end) ==
    IF k > Len(cov) THEN <<>>
    ELSE LET covered_line == cov[k]
             seg_start == last_covered + 1
             seg_end == covered_line - 1
             here == IF covered_line > last_covered + 1
                        /\ seg_start <= context_end /\ seg_start <= seg_end
                     THEN << <<seg_start, Min(seg_end, context_end)>> >>
                     ELSE <<>>
         IN here \o GapSegments(cov, k + 1, covered_line, context_end)

\* Segments without the sentinel context_end + 1 after the covered lines
SegmentsNoSentinel(scan_line, covered, n) ==
    LET context_start == ContextStart(scan_line)
        context_end == ContextEnd(scan_line, n)
        overlapping_covered ==
            SortedSeq({ ln \in covered : context_start <= ln /\ ln <= context_end })
    IN IF overlapping_covered = <<>>
       THEN << <<context_start, context_end>> >>
       ELSE GapSegments(overlapping_covered, 1, context_start - 1, context_end)

Segments(scan_line, covered, n) ==
    LET context_start == ContextStart(scan_line)
        context_end == ContextEnd(scan_line, n)
        overlapping_covered ==
            SortedSeq({ ln \in covered : context_start <= ln /\ ln <= context_end })
    IN IF overlapping_covered = <<>>
       THEN << <<context_start, context_end>> >>
       ELSE GapSegments(overlapping_covered \o <<context_end + 1>>, 1,
                        context_start - 1, context_end)

\* one scan_context hunk per segment with seg_start <= seg_end
RECURSIVE SegmentHunks(_, _, _)
SegmentHunks(segs, k, scan_line) ==
    IF k > Len(segs) THEN <<>>
    ELSE (IF segs[k][1] <= segs[k][2]
          THEN <<ScanHunk(segs[k][1], segs[k][2], scan_line)>>
          ELSE <<>>) \o SegmentHunks(segs, k + 1, scan_line)

\* HunksForFinding without the test "scan_line in covered_lines"
HunksForFindingUnskipped(scan_line, covered, n) ==
    SegmentHunks(Segments(scan_line, covered, n), 1, scan_line)

\* the body of "for scan_line in scan_lines"
HunksForFinding(scan_line, covered, n) ==
    IF scan_line \in covered THEN <<>>
    ELSE SegmentHunks(Segments(scan_line, covered, n), 1, scan_line)

(***************************************************************************)
(* all_hunks.sort(key=lambda h: h['new_start']): a stable sort.            *)
(***************************************************************************)
\* InsertByStart that merges h into a hunk of the same kind it overlaps
RECURSIVE InsertByStartMerging(_, _)
InsertByStartMerging(sorted, h) ==
    IF sorted = <<>> THEN <<h>>
    ELSE LET last == sorted[Len(sorted)]
         IN IF last.type = h.type /\ last.type = "scan_context"
               /\ last.new_start <= h.new_start
               /\ h.new_start <= last.new_start + last.new_count
            THEN Append(SubSeq(sorted, 1, Len(sorted) - 1),
                        [last EXCEPT !.new_count =
                           Max(last.new_start + last.new_count,
                               h.new_start + h.new_count) - last.new_start])
            ELSE IF last.new_start <= h.new_start
            THEN Append(sorted, h)
            ELSE Append(InsertByStartMerging(SubSeq(sorted, 1, Len(sorted) - 1), h),
                        last)

RECURSIVE InsertByStart(_, _)
InsertByStart(sorted, h) ==
    IF sorted = <<>> THEN <<h>>
    ELSE IF sorted[Len(sorted)].new_start <= h.new_start
         THEN Append(sorted, h)
         ELSE Append(InsertByStart(SubSeq(sorted, 1, Len(sorted) - 1), h),
                     sorted[Len(sorted)])

RECURSIVE SortFrom(_, _, _)
SortFrom(hunks, k, acc) ==
    IF k > Len(hunks) THEN acc
    ELSE SortFrom(hunks, k + 1, InsertByStart(acc, hunks[k]))

SortHunksByStart(hunks) == SortFrom(hunks, 1, <<>>)

(***************************************************************************)
(* Table rows.  old and new are the texts of the two diff-line-num cells   *)
(* (Blank when empty); ann is the line of the finding in the id of a       *)
(* scan-result row; src is the kind of hunk that emitted the row; content  *)
(* tells where the text of the row comes from; s10/e10 and s/e are the     *)
(* data-context-start/-end of the 10-line and of the full expand button.   *)
(***************************************************************************)
Row(cls, old, new, ann, src, content, dir, s10, e10, s, e) ==
    [cls |-> cls, old |-> old, new |-> new, ann |-> ann, src |-> src,
     content |-> content, dir |-> dir, s10 |-> s10, e10 |-> e10, s |-> s, e |-> e]

CodeRow(cls, old, new, src, content) ==
    Row(cls, old, new, Blank, src, content, "", 0, 0, 0, 0)

HunkHeaderRow(src) == CodeRow("diff-hunk-header", Blank, Blank, src, "header")

\* the file name of the findings of the file, as the scan results give it:
\* the characters of "src/a.c"
ScanFilename == <<"s", "r", "c", "/", "a", ".", "c">>

\* the description of the finding at a line, by the number of that line
Description(line) == line

\* the str hashes of the Python processes: one keyed hash function per seed
HashSeeds == {0, 1}

\* hash(s) of a process whose str hashes are keyed by seed
Hash(description, seed) == (description + 2) * (seed + 1) * (seed + 3)

\* cid_number = f"CID {hash(scan_result[description]) % 1000000:06d}"
CidNumber(description, seed) == Hash(description, seed) % CidModulus

\* safe_filename = filename.replace('/', '-').replace('\\', '-').replace('.', '-')
SafeFilename(filename) ==
    [i \in 1..Len(filename) |->
        IF filename[i] \in {"/", "\\", "."} THEN "-" ELSE filename[i]]

\* f"scanresult-{safe_filename}-{line}"
JumpId(safe_filename, line) == [safe_filename |-> safe_filename, line |-> line]

\* RealHunkJumpId without the replacement of '/', '\\' and '.'
RealHunkJumpIdRaw(filename, scan_line_num) == JumpId(filename, scan_line_num)

\* jump_id of _render_real_diff_hunk
RealHunkJumpId(filename, scan_line_num) ==
    JumpId(SafeFilename(filename), scan_line_num)

\* jump_id of _render_scan_context_hunk
ScanContextJumpId(filename, ln) == JumpId(SafeFilename(filename), ln)

\* jump_id of render_scan_results_panel
PanelJumpId(filename, line) == JumpId(SafeFilename(filename), line)

\* the scan-result row of the finding at line ann, emitted by a hunk of kind
\* src: the only rows with an id attribute and a CID cell
ScanResultRow(ann, src) ==
    [cls |-> "scan-result", old |-> Blank, new |-> Blank, ann |-> ann,
     src |-> src, content |-> "finding", dir |-> "", s10 |-> 0, e10 |-> 0,
     s |-> 0, e |-> 0,
     id |-> IF src = "real_diff" THEN RealHunkJumpId(ScanFilename, ann)
            ELSE ScanContextJumpId(ScanFilename, ann),
     cid |-> CidNumber(Description(ann), hash_seed)]

\* render_scan_results_panel: one item per finding, sorted by file and line
RenderScanResultsPanel(findings) ==
    LET lines == SortedSeq(findings)
    IN [k \in 1..Len(lines) |->
          [line |-> lines[k], jump |-> PanelJumpId(ScanFilename, lines[k])]]

ExpandRow(dir, context_start, context_end) ==
    Row("expand-row", Blank, Blank, Blank, "gap", "buttons", dir,
        context_start, context_end, context_start, context_end)

\* full_lines[ln-1] if 0 <= ln-1 < len(full_lines) else ''   (Python)
\* lines[ln - 1] || ''                                        (JavaScript)
FileContent(ln, n) == IF 1 <= ln /\ ln <= n THEN "full_lines" ELSE "empty"

\* _find_matching_scan_result(scan_results, filename, line_num)
FindMatchingScanResult(findings, line_num) == line_num \in findings

(***************************************************************************)
(* _render_real_diff_hunk: the rows of one real hunk.                      *)
(***************************************************************************)
\* scan_line_num of a diff line (0 when the line has none)
ScanLineNum(l, cur_old, cur_new) ==
    IF l.k \in {"add", "ctx"} THEN cur_new
    ELSE IF l.k = "del" THEN cur_old
    ELSE 0

\* RealLineRows without the test of rendered_scan_results
RealLineRowsRepeating(l, cur_old, cur_new, findings, rendered) ==
    LET num == ScanLineNum(l, cur_old, cur_new)
        annot == IF num # 0 /\ FindMatchingScanResult(findings, num)
                 THEN <<ScanResultRow(num, "real_diff")>> ELSE <<>>
        line == IF l.k = "add"
                THEN <<CodeRow("diff-added", Blank, cur_new, "real_diff", "diff")>>
                ELSE IF l.k = "del"
                THEN <<CodeRow("diff-removed", cur_old, Blank, "real_diff", "diff")>>
                ELSE IF l.k = "ctx"
                THEN <<CodeRow("diff-context", cur_old, cur_new, "real_diff", "diff")>>
                ELSE <<>>
    IN annot \o line

\* the rows appended for line l: the scan-result row, when a finding matches
\* and was not rendered in this hunk yet, and the diff row itself
RealLineRows(l, cur_old, cur_new, findings, rendered) ==
    LET num == ScanLineNum(l, cur_old, cur_new)
        annot == IF num # 0 /\ FindMatchingScanResult(findings, num)
                    /\ num \notin rendered
                 THEN <<ScanResultRow(num, "real_diff")>> ELSE <<>>
        line == IF l.k = "add"
                THEN <<CodeRow("diff-added", Blank, cur_new, "real_diff", "diff")>>
                ELSE IF l.k = "del"
                THEN <<CodeRow("diff-removed", cur_old, Blank, "real_diff", "diff")>>
                ELSE IF l.k = "ctx"
                THEN <<CodeRow("diff-context", cur_old, cur_new, "real_diff", "diff")>>
                ELSE <<>>
    IN annot \o line

RECURSIVE RealRowsFrom(_, _, _, _, _, _)
RealRowsFrom(lines, j, cur_old, cur_new, findings, rendered) ==
    IF j > Len(lines) \/ StartsWithAtAt(lines[j]) THEN <<>>
    ELSE LET l == lines[j]
             num == ScanLineNum(l, cur_old, cur_new)
             rendered2 == IF num # 0 /\ FindMatchingScanResult(findings, num)
                          THEN rendered \cup {num} ELSE rendered
             old2 == IF l.k \in {"del", "ctx"} THEN cur_old + 1 ELSE cur_old
             new2 == IF l.k \in {"add", "ctx"} THEN cur_new + 1 ELSE cur_new
         IN RealLineRows(l, cur_old, cur_new, findings, rendered)
            \o RealRowsFrom(lines, j + 1, old2, new2, findings, rendered2)

RenderRealDiffHunk(lines, h, findings) ==
    <<HunkHeaderRow("real_diff")>>
    \o RealRowsFrom(lines, h.diff_idx + 1, lines[h.diff_idx].old_start,
                    h.new_start, findings, {})

(***************************************************************************)
(* _render_scan_context_hunk: the rows of one synthetic hunk.              *)
(***************************************************************************)
ScanContextLineRows(ln, findings, n) ==
    <<CodeRow("diff-context", Blank, ln, "scan_context", FileContent(ln, n))>>
    \o (IF FindMatchingScanResult(findings, ln)
        THEN <<ScanResultRow(ln, "scan_context")>> ELSE <<>>)

RECURSIVE ScanContextRowsFrom(_, _, _, _)
ScanContextRowsFrom(ln, end_line, findings, n) ==
    IF ln > end_line THEN <<>>
    ELSE ScanContextLineRows(ln, findings, n)
         \o ScanContextRowsFrom(ln + 1, end_line, findings, n)

RenderScanContextHunk(h, findings, n) ==
    <<HunkHeaderRow("scan_context")>>
    \o ScanContextRowsFrom(h.new_start, HunkEnd(h), findings, n)

(***************************************************************************)
(* The render loop of parse_diff_to_html_with_expand.                      *)
(***************************************************************************)
\* NeedsExpandAbove with the gap test off by one
NeedsExpandAboveOffByOne(hunk_start, prev_end) == hunk_start > prev_end + 2

\* if hunk_start > prev_hunk_end + 1
NeedsExpandAbove(hunk_start, prev_end) == hunk_start > prev_end + 1

\* NeedsExpandBelow that asks for a hunk before the trailing gap
NeedsExpandBelowAfterHunk(prev_end, n) == 0 < prev_end /\ prev_end < n

\* if prev_hunk_end < len(full_lines)
NeedsExpandBelow(prev_end, n) == prev_end < n

HunkRows(lines, h, findings, n) ==
    IF h.type = "real_diff" THEN RenderRealDiffHunk(lines, h, findings)
    ELSE RenderScanContextHunk(h, findings, n)

(***************************************************************************)
(* The expand-icon click handler of generate_js.                           *)
(***************************************************************************)
\* row.querySelectorAll('.diff-line-num').length >= 2
HasLineNumCells(r) == r.cls # "diff-hunk-header"

\* the numbers lineNum with !isNaN(lineNum) && lineNum > 0 of the cells of r
RowNums(r) == IF HasLineNumCells(r) THEN { x \in {r.old, r.new} : x > 0 } ELSE {}

\* visibleLines
VisibleLines(rows) == UNION { RowNums(rows[i]) : i \in 1..Len(rows) }

\* the window of a click: the range of the clicked button, cut to ten lines
\* for the above-10 and below-10 buttons
WindowStart(r, variant) ==
    IF variant = "ten" /\ r.dir = "above" THEN Max(r.s10, r.e10 - ExpandStep)
    ELSE IF variant = "ten" THEN r.s10
    ELSE r.s

WindowEnd(r, variant) ==
    IF variant = "ten" /\ r.dir = "below" THEN Min(r.e10, r.s10 + ExpandStep)
    ELSE IF variant = "ten" THEN r.e10
    ELSE r.e

\* linesToInsert: the lines of the window that are not visible
RECURSIVE LinesToInsert(_, _, _)
LinesToInsert(visible, ln, context_end) ==
    IF ln > context_end THEN <<>>
    ELSE (IF ln \notin visible THEN <<ln>> ELSE <<>>)
         \o LinesToInsert(visible, ln + 1, context_end)

\* the first row whose largest line number exceeds contextStart, else tr
InsertionPoint(rows, context_start, tr) ==
    LET hits == { i \in 1..Len(rows) :
                    \E x \in RowNums(rows[i]) : x > context_start }
    IN IF hits = {} THEN tr ELSE CHOOSE i \in hits : \A j \in hits : i <= j

ExpandedRow(ln, n) ==
    CodeRow("expanded-context", Blank, ln, "expand", FileContent(ln, n))

NewRows(lns, n) == [k \in 1..Len(lns) |-> ExpandedRow(lns[k], n)]

InsertBefore(rows, at, block) ==
    SubSeq(rows, 1, at - 1) \o block \o SubSeq(rows, at, Len(rows))

\* NarrowedRow that leaves the line next to the window in both ranges
NarrowedRowOverlapping(r, context_start, context_end) ==
    IF r.dir = "above"
    THEN (IF context_start - 1 >= r.s10
          THEN <<[r EXCEPT !.e10 = context_start]>> ELSE <<>>)
    ELSE (IF context_end + 1 <= r.e10
          THEN <<[r EXCEPT !.s10 = context_end]>> ELSE <<>>)

\* the row tr after a click on its 10-line button: the button keeps the part
\* of its range the window did not take; <<>> when tr.remove() is called
NarrowedRow(r, context_start, context_end) ==
    IF r.dir = "above"
    THEN (IF context_start - 1 >= r.s10
          THEN <<[r EXCEPT !.e10 = context_start - 1]>> ELSE <<>>)
    ELSE (IF context_end + 1 <= r.e10
          THEN <<[r EXCEPT !.s10 = context_end + 1]>> ELSE <<>>)

AfterClickRow(r, variant, context_start, context_end) ==
    IF variant = "ten" THEN NarrowedRow(r, context_start, context_end) ELSE <<>>

\* the table after a click on a button of the expand row at index tr
ClickResult(rows, tr, variant, n) ==
    LET r == rows[tr]
        context_start == WindowStart(r, variant)
        context_end == WindowEnd(r, variant)
        block == NewRows(LinesToInsert(VisibleLines(rows), context_start,
                                       context_end), n)
        at == InsertionPoint(rows, context_start, tr)
        tr2 == IF at <= tr THEN tr + Len(block) ELSE tr
        grown == InsertBefore(rows, at, block)
    IN SubSeq(grown, 1, tr2 - 1)
       \o AfterClickRow(r, variant, context_start, context_end)
       \o SubSeq(grown, tr2 + 1, Len(grown))

(***************************************************************************)
(* load_scan_results (src/svn_review_generator.py): the analyzer JSON      *)
(* files of the scan results directory.  A path is modelled by its parts   *)
(* and the separator it is written with; a line range by its form ("2",    *)
(* "2-5", a text without digit or dash, a text with a dash whose first     *)
(* half is no number) and the number it starts with; the description of    *)
(* a raw issue by its position among the issues of its JSON file, so the   *)
(* descriptions of one file are pairwise different.  The two values of     *)
(* the severity field are written "general" and "severe".                  *)
(***************************************************************************)
Path(sep, parts) == [sep |-> sep, parts |-> parts]

\* "Look for common project directory names"
ProjectDirs == {"Server", "src", "source", "code"}

\* the parts of a path that hold a ':'
DriveParts == {"D:"}

\* the 'file' and source listing fields of a JSON file: a relative path
\* without listing, the absolute Windows path of the same file with a
\* listing whose first numbered line is 2, another file, and a JSON file
\* without 'file'
JsonHeads ==
    { [has_file |-> TRUE, file |-> Path("/", <<"src", "a.c">>),
       source_first |-> 0],
      [has_file |-> TRUE, file |-> Path("/", <<"src", "b.c">>),
       source_first |-> 0],
      [has_file |-> TRUE, file |-> Path("\\", <<"D:", "work", "src", "a.c">>),
       source_first |-> 2],
      [has_file |-> FALSE, file |-> Path("/", <<>>), source_first |-> 0] }

\* the values of the line range field: "2", "2-5", "x" and "a-b"
LineRanges ==
    { [kind |-> "digits", start |-> 2], [kind |-> "range", start |-> 2],
      [kind |-> "other", start |-> 0], [kind |-> "bad", start |-> 0] }

\* filename.replace('\\', '/') and the cut of an absolute path at the first
\* project directory; the result is the sequence of parts joined by '/'
NormalizeFilename(path) ==
    LET parts == path.parts
        dirs == { i \in 1..Len(parts) : parts[i] \in ProjectDirs }
        has_colon == \E i \in 1..Len(parts) : parts[i] \in DriveParts
    IN IF has_colon /\ dirs # {}
       THEN SubSeq(parts, CHOOSE i \in dirs : \A j \in dirs : i <= j, Len(parts))
       ELSE parts

\* int(line_range.split('-')[0]) raises ValueError
LineRangeRaises(line_range) == line_range.kind = "bad"

\* parse_line_number(line_range, source_code); source_first is the number
\* re.search(r'\n(\d+)', source_code) finds, 0 when it finds none
ParseLineNumber(line_range, source_first) ==
    IF line_range.kind \in {"range", "digits"} THEN line_range.start
    ELSE IF source_first # 0 THEN source_first
    ELSE 1

\* one JSON file with its list of general and its list of severe issues
FileData(head, general, severe) ==
    [has_file |-> head.has_file, file |-> head.file,
     source_first |-> head.source_first,
     general |-> [i \in 1..Len(general) |->
                    [line_range |-> general[i], description |-> i]],
     severe |-> [i \in 1..Len(severe) |->
                    [line_range |-> severe[i],
                     description |-> Len(general) + i]]]

NumIssues(file_data) == Len(file_data.general) + Len(file_data.severe)

\* the JSON files with exactly m raw issues
JsonFileData(m) ==
    UNION { { FileData(head, g, s) :
                head \in JsonHeads,
                g \in [1..j -> LineRanges],
                s \in [1..(m - j) -> LineRanges] } :
            j \in 0..m }

\* the number of raw issues of the JSON files files[k..]
RECURSIVE RawIssues(_, _)
RawIssues(files, k) ==
    IF k > Len(files) THEN 0
    ELSE NumIssues(files[k]) + RawIssues(files, k + 1)

\* "Collect all issues for this file": the general issues, then the severe
FileIssues(file_data) ==
    LET issue(raw, severity) ==
            [filename |-> NormalizeFilename(file_data.file),
             line_number |-> ParseLineNumber(raw.line_range,
                                             file_data.source_first),
             description |-> raw.description,
             severity |-> severity]
    IN [i \in 1..Len(file_data.general) |->
            issue(file_data.general[i], "general")]
       \o [i \in 1..Len(file_data.severe) |->
            issue(file_data.severe[i], "severe")]

\* the keys of grouped_issues, in the order of their first issue
RECURSIVE GroupedLines(_, _, _)
GroupedLines(file_issues, k, seen) ==
    IF k > Len(file_issues) THEN <<>>
    ELSE LET ln == file_issues[k].line_number
         IN (IF ln \in seen THEN <<>> ELSE <<ln>>)
            \o GroupedLines(file_issues, k + 1, seen \cup {ln})

\* grouped_issues[line_number]
GroupedIssues(file_issues, line_number) ==
    SelectSeq(file_issues, LAMBDA issue : issue.line_number = line_number)

\* CombinedSeverity that takes the severity of the first issue
CombinedSeverityOfFirst(issues) == issues[1].severity

\* has_severe = any(...); severity
CombinedSeverity(issues) ==
    IF \E i \in 1..Len(issues) : issues[i].severity = "severe"
    THEN "severe" ELSE "general"

\* combined_description: the description of a single issue as it is, or one
\* numbered part per issue joined by a separator line
CombinedDescription(issues) ==
    IF Len(issues) = 1
    THEN [format |-> "original", parts |-> <<issues[1].description>>]
    ELSE [format |-> "structured",
          parts |-> [i \in 1..Len(issues) |->
                       [number |-> i, severity |-> issues[i].severity,
                        description |-> issues[i].description]]]

\* the finding appended to scan_results for one line
CombinedFinding(issues) ==
    [filename |-> issues[1].filename,
     line_number |-> issues[1].line_number,
     description |-> CombinedDescription(issues),
     suggestion |-> IF Len(issues) = 1 THEN "original" ELSE "count",
     severity |-> CombinedSeverity(issues),
     issue_count |-> Len(issues)]

\* the findings one JSON file adds to scan_results
FileFindings(file_data) ==
    LET file_issues == FileIssues(file_data)
        lines == GroupedLines(file_issues, 1, {})
    IN [k \in 1..Len(lines) |->
          CombinedFinding(GroupedIssues(file_issues, lines[k]))]

\* the JSON file raises inside the try block of the loop
LoadRaises(file_data) ==
    \E raw \in { file_data.general[i] : i \in 1..Len(file_data.general) }
              \cup { file_data.severe[i] : i \in 1..Len(file_data.severe) } :
        LineRangeRaises(raw.line_range)

(***************************************************************************)
(* generate (src/parse_diff_generate_html.py, src/svn_review_generator.py):*)
(* one review page per commit or revision, then the index page.  A commit  *)
(* is modelled by what its external commands will do: none fails, a        *)
(* command of get_commit_info / get_changed_files fails ("info"), or the   *)
(* diff command of its changed file number file fails ("diff").            *)
(***************************************************************************)
CommitOutcomes ==
    { [fails |-> "none", file |-> 0], [fails |-> "info", file |-> 0] }
    \cup { [fails |-> "diff", file |-> f] : f \in 1..MaxFiles }

\* the runs of at most MaxCommits commits
CommitLists == UNION { [1..n -> CommitOutcomes] : n \in 1..MaxCommits }

\* subprocess.run(..., check=True) raises CalledProcessError for the commands
\* of get_commit_info and get_changed_files
InfoCommandFails(outcome) == outcome.fails = "info"

\* subprocess.run(..., check=True) raises CalledProcessError for the diff of
\* the changed file number f
DiffCommandFails(outcome, f) == outcome.fails = "diff" /\ outcome.file = f

\* parse_diff_to_html is not running
HtmlIdle ==
    /\ line_i = 1
    /\ in_header = TRUE
    /\ old_line_num = 0
    /\ new_line_num = 0
    /\ diff_html = <<>>
    /\ html_pc = "idle"

\* generate is not running
RunIdle ==
    /\ commit_hashes = <<>>
    /\ commit_idx = 1
    /\ file_idx = 1
    /\ generated_files = <<>>
    /\ run_pc = "idle"

\* load_scan_results is not running
LoadIdle ==
    /\ json_files = <<>>
    /\ json_idx = 1
    /\ load_results = <<>>
    /\ last_loaded = <<>>
    /\ load_pc = "idle"

(***************************************************************************)
(* Initial states: the inputs of one render.  Either any diff of at most   *)
(* MaxDiffLen lines with at most one finding in a file of MaxLines lines,  *)
(* or no diff at all with up to MaxFindings findings in a file of any      *)
(* length up to MaxLines, or any diff without finding for a file that is   *)
(* not found.  A file that is not found at any of the paths tried, or that *)
(* is empty, has full_len = 0.  The process hashes strings with any seed   *)
(* of HashSeeds in the second family and with seed 0 in the others.        *)
(***************************************************************************)
NoClick == [variant |-> "none", context_start |-> 0, context_end |-> 0,
            inserted |-> 0, skipped |-> 0]

Inputs(d, n, F) ==
    /\ diff_text = d
    /\ full_len = n
    /\ scan_results = F

Init ==
    /\ \/ \E d \in DiffTexts, F \in FindingSets(1) :
             Inputs(d, MaxLines, F) /\ hash_seed = 0
       \/ \E n \in 0..MaxLines, F \in FindingSets(MaxFindings) :
             /\ Inputs(<<>>, n, F)
             /\ hash_seed \in IF n = MaxLines THEN HashSeeds ELSE {0}
       \/ \E d \in DiffTexts : Inputs(d, 0, {}) /\ hash_seed = 0
    /\ render_no = 1
    /\ first_html = <<>>
    /\ panel = <<>>
    /\ pc = "parse"
    /\ all_hunks = <<>>
    /\ covered_lines = {}
    /\ scan_idx = 1
    /\ hunk_idx = 1
    /\ prev_hunk_end = 0
    /\ html_lines = <<>>
    /\ table = <<>>
    /\ fullClicks = 0
    /\ lastClick = NoClick
    /\ LoadIdle
    /\ RunIdle
    /\ HtmlIdle

\* scan_lines: the lines of the findings of the file, sorted
ScanLines == SortedSeq(scan_results)

(***************************************************************************)
(* Actions.                                                                *)
(***************************************************************************)
\* "Parse original diff hunks" and "Calculate actual line coverage for real
\* diff hunks by parsing the diff content"
ParseDiff ==
    /\ pc = "parse"
    /\ full_len > 0
    /\ all_hunks' = ParseHunks(diff_text)
    /\ covered_lines' = CoveredLines(diff_text, ParseHunks(diff_text))
    /\ pc' = "align"
    /\ UNCHANGED <<pageVars, loadVars, runVars, htmlVars>>
    /\ UNCHANGED <<diff_text, full_len, scan_results, scan_idx, hunk_idx,
                   prev_hunk_end, html_lines, table, fullClicks, lastClick>>

\* "if not full_lines: ... raise FileNotFoundError(error_msg)", raised again
\* by the except clause: the call ends without rows
RaiseFileNotFound ==
    /\ pc = "parse"
    /\ full_len = 0
    /\ pc' = "raised"
    /\ UNCHANGED <<pageVars, loadVars, runVars, htmlVars>>
    /\ UNCHANGED <<diff_text, full_len, scan_results, all_hunks, covered_lines,
                   scan_idx, hunk_idx, prev_hunk_end, html_lines, table,
                   fullClicks, lastClick>>

\* one iteration of "for scan_line in scan_lines"
AlignFinding ==
    /\ pc = "align"
    /\ scan_idx <= Len(ScanLines)
    /\ all_hunks' = all_hunks
                    \o HunksForFinding(ScanLines[scan_idx], covered_lines, full_len)
    /\ scan_idx' = scan_idx + 1
    /\ UNCHANGED <<pageVars, loadVars, runVars, htmlVars>>
    /\ UNCHANGED <<diff_text, full_len, scan_results, pc, covered_lines,
                   hunk_idx, prev_hunk_end, html_lines, table, fullClicks,
                   lastClick>>

\* "Sort all hunks by start line without merging"
SortHunks ==
    /\ pc = "align"
    /\ scan_idx > Len(ScanLines)
    /\ all_hunks' = SortHunksByStart(all_hunks)
    /\ pc' = "render"
    /\ UNCHANGED <<pageVars, loadVars, runVars, htmlVars>>
    /\ UNCHANGED <<diff_text, full_len, scan_results, covered_lines, scan_idx,
                   hunk_idx, prev_hunk_end, html_lines, table, fullClicks,
                   lastClick>>

\* one iteration of "for hunk in all_hunks"
RenderHunk ==
    /\ pc = "render"
    /\ hunk_idx <= Len(all_hunks)
    /\ LET hunk == all_hunks[hunk_idx]
           gap == IF NeedsExpandAbove(hunk.new_start, prev_hunk_end)
                  THEN <<ExpandRow("above", prev_hunk_end + 1, hunk.new_start - 1)>>
                  ELSE <<>>
       IN /\ html_lines' = html_lines \o gap
                           \o HunkRows(diff_text, hunk, scan_results, full_len)
          /\ prev_hunk_end' = HunkEnd(hunk)
    /\ hunk_idx' = hunk_idx + 1
    /\ UNCHANGED <<pageVars, loadVars, runVars, htmlVars>>
    /\ UNCHANGED <<diff_text, full_len, scan_results, pc, all_hunks,
                   covered_lines, scan_idx, table, fullClicks, lastClick>>

\* "Add expansion button for remaining lines after last hunk" and return
FinishRender ==
    /\ pc = "render"
    /\ hunk_idx > Len(all_hunks)
    /\ html_lines' = html_lines
                     \o (IF NeedsExpandBelow(prev_hunk_end, full_len)
                         THEN <<ExpandRow("below", prev_hunk_end + 1, full_len)>>
                         ELSE <<>>)
    /\ pc' = "rendered"
    /\ UNCHANGED <<pageVars, loadVars, runVars, htmlVars>>
    /\ UNCHANGED <<diff_text, full_len, scan_results, all_hunks, covered_lines,
                   scan_idx, hunk_idx, prev_hunk_end, table, fullClicks,
                   lastClick>>

\* generate_review_page puts the scan results panel and the diff tables on
\* the page
GenerateReviewPage ==
    /\ pc = "rendered"
    /\ panel' = RenderScanResultsPanel(scan_results)
    /\ pc' = "page"
    /\ UNCHANGED <<hash_seed, render_no, first_html, loadVars, runVars,
                   htmlVars>>
    /\ UNCHANGED <<diff_text, full_len, scan_results, all_hunks, covered_lines,
                   scan_idx, hunk_idx, prev_hunk_end, html_lines, table,
                   fullClicks, lastClick>>

\* the browser builds the table of the page; DOMContentLoaded registers the
\* click handler on every expand-icon button
LoadPage ==
    /\ pc = "page"
    /\ table' = html_lines
    /\ pc' = "loaded"
    /\ UNCHANGED <<pageVars, loadVars, runVars, htmlVars>>
    /\ UNCHANGED <<diff_text, full_len, scan_results, all_hunks, covered_lines,
                   scan_idx, hunk_idx, prev_hunk_end, html_lines, fullClicks,
                   lastClick>>

\* a click on the 10-line (variant "ten") or the full (variant "full") button
\* of the expand row at index tr
Click(tr, variant) ==
    /\ pc = "loaded"
    /\ tr \in 1..Len(table)
    /\ table[tr].cls = "expand-row"
    /\ table' = ClickResult(table, tr, variant, full_len)
    /\ fullClicks' = IF variant = "full" THEN fullClicks + 1 ELSE fullClicks
    /\ lastClick' =
         LET context_start == WindowStart(table[tr], variant)
             context_end == WindowEnd(table[tr], variant)
             ins == Len(LinesToInsert(VisibleLines(table), context_start,
                                      context_end))
         IN [variant |-> variant, context_start |-> context_start,
             context_end |-> context_end, inserted |-> ins,
             skipped |-> (context_end - context_start + 1) - ins]
    /\ UNCHANGED <<pageVars, loadVars, runVars, htmlVars>>
    /\ UNCHANGED <<diff_text, full_len, scan_results, pc, all_hunks,
                   covered_lines, scan_idx, hunk_idx, prev_hunk_end, html_lines>>

ClickTen == \E tr \in 1..Len(table) : Click(tr, "ten")

ClickFull == \E tr \in 1..Len(table) : Click(tr, "full")

Next ==
    \/ RaiseFileNotFound
    \/ ParseDiff
    \/ AlignFinding
    \/ SortHunks
    \/ RenderHunk
    \/ FinishRender
    \/ GenerateReviewPage
    \/ LoadPage
    \/ ClickTen
    \/ ClickFull

Spec == Init /\ [][Next]_vars

(***************************************************************************)
(* One call of parse_diff_to_html_with_expand alone, up to its return.     *)
(***************************************************************************)
NextRender ==
    \/ RaiseFileNotFound
    \/ ParseDiff
    \/ AlignFinding
    \/ SortHunks
    \/ RenderHunk
    \/ FinishRender

SpecRender == Init /\ [][NextRender]_vars

(***************************************************************************)
(* Two renders of the same inputs: the second one in the same process, or  *)
(* in another run of the program, whose str hashes have a seed of their    *)
(* own (PYTHONHASHSEED is random unless the environment sets it).          *)
(***************************************************************************)
\* parse_diff_to_html_with_expand is called again with the same arguments
SecondRender ==
    /\ pc = "rendered"
    /\ render_no = 1
    /\ first_html' = html_lines
    /\ render_no' = 2
    /\ pc' = "parse"
    /\ all_hunks' = <<>>
    /\ covered_lines' = {}
    /\ scan_idx' = 1
    /\ hunk_idx' = 1
    /\ prev_hunk_end' = 0
    /\ html_lines' = <<>>
    /\ UNCHANGED <<diff_text, full_len, scan_results, table, fullClicks,
                   lastClick, panel, loadVars, runVars, htmlVars>>

\* the second render happens in the same run of the program
RenderAgain == SecondRender /\ UNCHANGED hash_seed

\* the second render happens in another run of the program
RenderInNewRun == SecondRender /\ hash_seed' \in HashSeeds

NextRenders ==
    \/ RaiseFileNotFound
    \/ ParseDiff
    \/ AlignFinding
    \/ SortHunks
    \/ RenderHunk
    \/ FinishRender
    \/ RenderAgain
    \/ RenderInNewRun

SpecRenders == Init /\ [][NextRenders]_vars

(***************************************************************************)
(* load_scan_results as a state machine: the loop over the JSON files.     *)
(***************************************************************************)
\* parse_diff_to_html_with_expand is not running
RenderIdle ==
    /\ Inputs(<<>>, 1, {})
    /\ pc = "idle"
    /\ all_hunks = <<>>
    /\ covered_lines = {}
    /\ scan_idx = 1
    /\ hunk_idx = 1
    /\ prev_hunk_end = 0
    /\ html_lines = <<>>
    /\ table = <<>>
    /\ fullClicks = 0
    /\ lastClick = NoClick
    /\ hash_seed = 0
    /\ render_no = 1
    /\ first_html = <<>>
    /\ panel = <<>>

renderVars == <<diff_text, full_len, scan_results, pc, all_hunks,
                covered_lines, scan_idx, hunk_idx, prev_hunk_end, html_lines,
                table, fullClicks, lastClick, pageVars>>

InitLoad ==
    /\ LoadIdle
    /\ RenderIdle
    /\ RunIdle
    /\ HtmlIdle

\* os.listdir found the JSON files of the directory
ListJsonFiles ==
    /\ load_pc = "idle"
    /\ load_pc' = "loading"
    /\ UNCHANGED <<json_files, json_idx, load_results, last_loaded>>
    /\ UNCHANGED <<renderVars, runVars, htmlVars>>

\* one iteration of "for json_file in json_files" on the JSON file file_data:
\* a file without 'file' is skipped, a file that raises is skipped by the
\* except clause of the loop, any other file appends one finding per line
LoadJson(file_data) ==
    /\ load_pc = "loading"
    /\ json_files' = Append(json_files, file_data)
    /\ LET loaded == IF ~file_data.has_file \/ LoadRaises(file_data)
                     THEN <<>> ELSE FileFindings(file_data)
       IN /\ load_results' = load_results \o loaded
          /\ last_loaded' = loaded
    /\ json_idx' = json_idx + 1
    /\ UNCHANGED load_pc
    /\ UNCHANGED <<renderVars, runVars, htmlVars>>

\* the next JSON file of the directory is any file within the bounds
LoadJsonFile ==
    /\ json_idx <= MaxJsonFiles
    /\ \E m \in 0..(MaxIssues - RawIssues(json_files, 1)) :
         \E file_data \in JsonFileData(m) : LoadJson(file_data)

\* return scan_results
ReturnScanResults ==
    /\ load_pc = "loading"
    /\ load_pc' = "returned"
    /\ UNCHANGED <<json_files, json_idx, load_results, last_loaded>>
    /\ UNCHANGED <<renderVars, runVars, htmlVars>>

NextLoad ==
    \/ ListJsonFiles
    \/ LoadJsonFile
    \/ ReturnScanResults

SpecLoad == InitLoad /\ [][NextLoad]_vars

(***************************************************************************)
(* Vocabulary of the claims.                                               *)
(***************************************************************************)
\* the hunk list is built and sorted
HunksBuilt == pc \in {"render", "rendered", "page", "loaded"}

\* parse_diff_to_html_with_expand has returned
Rendered == pc \in {"rendered", "page", "loaded"}

SynthIdx == { i \in 1..Len(all_hunks) : all_hunks[i].type = "scan_context" }
RealIdx == { i \in 1..Len(all_hunks) : all_hunks[i].type = "real_diff" }

InHunk(h, x) == h.new_start <= x /\ x <= HunkEnd(h)

\* the indices of the scan-result rows of rows for the finding at line f
AnnotationRows(rows, f) ==
    { i \in 1..Len(rows) : rows[i].cls = "scan-result" /\ rows[i].ann = f }

\* the indices of the rows of rows that carry a new-file line number
NumberedRows(rows) == { i \in 1..Len(rows) : rows[i].new # Blank }

\* the indices of the expand rows of rows
ControlRows(rows) == { i \in 1..Len(rows) : rows[i].cls = "expand-row" }

\* the rows of rows that show the number x in a line-number cell
RowsShowing(rows, x) ==
    { i \in 1..Len(rows) : rows[i].old = x \/ rows[i].new = x }

(***************************************************************************)
(* C1 (No-loss).  Once the hunk list of a file is built, every finding of  *)
(* the file is either on a covered line or inside the range of exactly one *)
(* synthetic hunk.                                                         *)
(* Refuted: a finding beyond the last line of the file is in no synthetic  *)
(* hunk (its window is cut at len(full_lines)), and two findings with      *)
(* overlapping windows are each inside two synthetic hunks.                *)
(***************************************************************************)
C1_NoLoss ==
    HunksBuilt =>
        \A f \in scan_results :
            \/ f \in covered_lines
            \/ Cardinality({ i \in SynthIdx : InHunk(all_hunks[i], f) }) = 1

(***************************************************************************)
(* C2.  The rendered table of a file holds at most one annotation          *)
(* (scan-result) row per finding.                                          *)
(* Refuted: every synthetic hunk renders every finding inside its range,   *)
(* and a real hunk renders a finding at the old number of a removed row.   *)
(***************************************************************************)
C2_NoDuplicateAnnotation ==
    Rendered =>
        \A f \in scan_results : Cardinality(AnnotationRows(html_lines, f)) <= 1

(***************************************************************************)
(* C3.  Findings are never lost: for any diff text and any finding with    *)
(* 1 <= line <= lastLine the rendered table holds an annotation row of the *)
(* finding, in a real hunk when the line is covered and in a synthetic     *)
(* hunk otherwise.                                                         *)
(***************************************************************************)
C3_FindingsNeverLost ==
    Rendered =>
        \A f \in scan_results :
            (1 <= f /\ f <= full_len) =>
                \E i \in AnnotationRows(html_lines, f) :
                    html_lines[i].src =
                        (IF f \in covered_lines THEN "real_diff" ELSE "scan_context")

\* a diff that is not empty and has no parseable header, and a finding of
\* the file that is rendered in a synthetic hunk
C3_Witness ==
    /\ pc = "rendered"
    /\ diff_text # <<>>
    /\ RealIdx = {}
    /\ \E f \in scan_results :
          /\ f <= full_len
          /\ \E i \in AnnotationRows(html_lines, f) :
                html_lines[i].src = "scan_context"

(***************************************************************************)
(* C4.  A finding on a line beyond the last line of the file is rendered:  *)
(* a code row of that line with empty content, followed by the annotation  *)
(* row of the finding.                                                     *)
(* Refuted: the context window ends at len(full_lines), so no row of the   *)
(* line is emitted and the finding has no annotation row.                  *)
(***************************************************************************)
C4_BeyondLastLineRendered ==
    Rendered =>
        \A f \in scan_results :
            f > full_len =>
                \E i \in 1..(Len(html_lines) - 1) :
                    /\ html_lines[i].new = f
                    /\ html_lines[i].content = "empty"
                    /\ html_lines[i + 1].cls = "scan-result"
                    /\ html_lines[i + 1].ann = f

(***************************************************************************)
(* C5 (Gap-reachability).  In the rendered table every line of             *)
(* 1..lastLine that is in the range [new_start, new_start + new_count - 1] *)
(* of no hunk is in the range of exactly one expand control, and no two    *)
(* expand controls overlap.                                                *)
(***************************************************************************)
InControl(r, x) == r.s <= x /\ x <= r.e

C5_GapReachability ==
    Rendered =>
        /\ \A x \in 1..full_len :
              (\A i \in 1..Len(all_hunks) : ~InHunk(all_hunks[i], x)) =>
                  Cardinality({ c \in ControlRows(html_lines) :
                                  InControl(html_lines[c], x) }) = 1
        /\ \A c \in ControlRows(html_lines), d \in ControlRows(html_lines) :
              c # d => \A x \in html_lines[c].s..html_lines[c].e :
                           ~InControl(html_lines[d], x)

\* a real and a synthetic hunk with two expand controls around them
C5_Witness ==
    /\ pc = "rendered"
    /\ RealIdx # {}
    /\ SynthIdx # {}
    /\ Cardinality(ControlRows(html_lines)) >= 2

(***************************************************************************)
(* C6.  The new-file line numbers of the rendered rows that carry one are  *)
(* non-decreasing from the first row to the last.                          *)
(* Refuted: two synthetic hunks with overlapping ranges are rendered one   *)
(* after the other, so the numbers start again.                            *)
(***************************************************************************)
C6_RowsMonotone ==
    Rendered =>
        \A i \in NumberedRows(html_lines), j \in NumberedRows(html_lines) :
            i < j => html_lines[i].new <= html_lines[j].new

(***************************************************************************)
(* C7 (Coverage correctness across findings).  No line number is in two    *)
(* different synthetic hunks, whichever findings triggered them.           *)
(* Refuted for hunks of different findings, which are not merged.          *)
(***************************************************************************)
C7_SyntheticDisjoint ==
    HunksBuilt =>
        \A i \in SynthIdx, j \in SynthIdx :
            i # j => \A x \in all_hunks[i].new_start..HunkEnd(all_hunks[i]) :
                         ~InHunk(all_hunks[j], x)

(***************************************************************************)
(* C7, amended.  No line number is in two different synthetic hunks        *)
(* triggered by the same finding.                                          *)
(***************************************************************************)
C7_SyntheticDisjointPerFinding ==
    HunksBuilt =>
        \A i \in SynthIdx, j \in SynthIdx :
            (i # j /\ all_hunks[i].scan_line = all_hunks[j].scan_line) =>
                \A x \in all_hunks[i].new_start..HunkEnd(all_hunks[i]) :
                    ~InHunk(all_hunks[j], x)

\* a finding whose window a covered line cuts into two synthetic hunks
C7_Witness ==
    /\ HunksBuilt
    /\ \E i \in SynthIdx, j \in SynthIdx :
          /\ i # j
          /\ all_hunks[i].scan_line = all_hunks[j].scan_line

(***************************************************************************)
(* C8.  Every annotation row directly follows the code row of its line:    *)
(* the added or context row with the finding's new-line number in a real   *)
(* hunk, the context row of the line in a synthetic hunk.                  *)
(* Refuted: _render_real_diff_hunk emits the annotation row before the     *)
(* diff row it concerns.                                                   *)
(***************************************************************************)
C8_AnnotationFollowsLine ==
    Rendered =>
        \A i \in 1..Len(html_lines) :
            html_lines[i].cls = "scan-result" =>
                /\ i > 1
                /\ html_lines[i - 1].cls \in {"diff-added", "diff-context"}
                /\ html_lines[i - 1].new = html_lines[i].ann

(***************************************************************************)
(* C9 (Idempotent expansion).  An expand click inserts no row for a line   *)
(* number the table already shows; the same window invoked again inserts   *)
(* nothing; and every line number absent from the initial render is shown  *)
(* by at most one row of the table.                                        *)
(***************************************************************************)
ShownNumbers(rows) ==
    { x \in UNION { {rows[i].old, rows[i].new} : i \in 1..Len(rows) } : x # Blank }

ClickInsertsOnlyAbsentLines ==
    \A x \in ShownNumbers(table') :
        Cardinality(RowsShowing(table', x)) > Cardinality(RowsShowing(table, x))
            => x \notin ShownNumbers(table)

SameWindowAgainInsertsNothing ==
    \A tr \in 1..Len(table), variant \in {"ten", "full"} :
        Click(tr, variant) =>
            LinesToInsert(VisibleLines(table'), WindowStart(table[tr], variant),
                          WindowEnd(table[tr], variant)) = <<>>

ExpandedLinesShownOnce ==
    \A x \in ShownNumbers(table') \ ShownNumbers(html_lines) :
        Cardinality(RowsShowing(table', x)) <= 1

C9_IdempotentExpansion ==
    [][ (pc = "loaded" /\ pc' = "loaded") =>
            /\ ClickInsertsOnlyAbsentLines
            /\ SameWindowAgainInsertsNothing
            /\ ExpandedLinesShownOnce ]_vars

(***************************************************************************)
(* C10.  After the full-range button of every expand control of the        *)
(* rendered table has been clicked, every line of 1..lastLine is the       *)
(* new-file line number of some row of the table.                          *)
(* Refuted: the handler takes the old-line numbers of removed and context  *)
(* rows for visible lines and skips the new-file lines of those numbers.   *)
(***************************************************************************)
C10_AllLinesReachable ==
    ( /\ pc = "loaded"
      /\ ControlRows(table) = {}
      /\ fullClicks = Cardinality(ControlRows(html_lines)) ) =>
        \A x \in 1..full_len : \E i \in 1..Len(table) : table[i].new = x

(***************************************************************************)
(* generate as a state machine: the loop over the commits, and inside      *)
(* generate_review_page the loop over the changed files.  run_git_command  *)
(* and run_svn_command answer a failed command with sys.exit(1); the       *)
(* SystemExit it raises is no Exception, so the "except Exception" of      *)
(* get_file_diff does not catch it.                                        *)
(***************************************************************************)
InitRun ==
    /\ commit_hashes \in CommitLists
    /\ commit_idx = 1
    /\ file_idx = 1
    /\ generated_files = <<>>
    /\ run_pc = "info"
    /\ LoadIdle
    /\ RenderIdle
    /\ HtmlIdle

\* generate_review_page: get_commit_info and get_changed_files
GetCommitInfo ==
    /\ run_pc = "info"
    /\ commit_idx <= Len(commit_hashes)
    /\ run_pc' = IF InfoCommandFails(commit_hashes[commit_idx])
                 THEN "exited" ELSE "files"
    /\ file_idx' = 1
    /\ UNCHANGED <<commit_hashes, commit_idx, generated_files>>
    /\ UNCHANGED <<renderVars, loadVars, htmlVars>>

\* generate_review_page: get_file_diff of one changed file
GetFileDiff ==
    /\ run_pc = "files"
    /\ file_idx <= MaxFiles
    /\ run_pc' = IF DiffCommandFails(commit_hashes[commit_idx], file_idx)
                 THEN "exited" ELSE "files"
    /\ file_idx' = file_idx + 1
    /\ UNCHANGED <<commit_hashes, commit_idx, generated_files>>
    /\ UNCHANGED <<renderVars, loadVars, htmlVars>>

\* generate_review_page writes the page; generated_files.append(output_file)
WriteReviewPage ==
    /\ run_pc = "files"
    /\ file_idx > MaxFiles
    /\ generated_files' = Append(generated_files, commit_idx)
    /\ commit_idx' = commit_idx + 1
    /\ run_pc' = "info"
    /\ UNCHANGED <<commit_hashes, file_idx>>
    /\ UNCHANGED <<renderVars, loadVars, htmlVars>>

\* generate_index_page, and generate returns
GenerateIndexPage ==
    /\ run_pc = "info"
    /\ commit_idx > Len(commit_hashes)
    /\ run_pc' = "done"
    /\ UNCHANGED <<commit_hashes, commit_idx, file_idx, generated_files>>
    /\ UNCHANGED <<renderVars, loadVars, htmlVars>>

NextRun ==
    \/ GetCommitInfo
    \/ GetFileDiff
    \/ WriteReviewPage
    \/ GenerateIndexPage

SpecRun == InitRun /\ [][NextRun]_vars

(***************************************************************************)
(* Claims about generate.                                                  *)
(***************************************************************************)
\* C14: the failure of an external git/svn command while one item is
\* processed is fatal for that item only: when the run is over, every commit
\* whose own commands all succeed has its review page.
C14_FailureIsLocal ==
    run_pc \in {"done", "exited"} =>
      \A c \in 1..Len(commit_hashes) :
         commit_hashes[c].fails = "none"
         => \E k \in 1..Len(generated_files) : generated_files[k] = c

(***************************************************************************)
(* Claims about load_scan_results.                                         *)
(***************************************************************************)
\* the last JSON file of the loop was read and merged without error
FileLoaded ==
    /\ json_idx > 1
    /\ json_files[json_idx - 1].has_file
    /\ ~LoadRaises(json_files[json_idx - 1])

\* the description d is part of the combined description
ContainsDescription(combined, d) ==
    IF combined.format = "original" THEN combined.parts[1] = d
    ELSE \E k \in 1..Len(combined.parts) : combined.parts[k].description = d

RECURSIVE SumOfCounts(_, _)
SumOfCounts(findings, k) ==
    IF k > Len(findings) THEN 0
    ELSE findings[k].issue_count + SumOfCounts(findings, k + 1)

C12_OnePerFileLine ==
    load_pc = "returned" =>
      \A i, j \in 1..Len(load_results) :
         (/\ load_results[i].filename = load_results[j].filename
          /\ load_results[i].line_number = load_results[j].line_number)
         => i = j

(***************************************************************************)
(* Claims about the inputs of a render and about its rows.                 *)
(***************************************************************************)
\* C13: when the full file content is missing, unreadable or empty, the
\* rendering of the file still completes (with empty strings for the lines)
\* and the condition is signalled without being fatal: the call never ends
\* by raising an error.
C13_MissingContentCompletes == full_len = 0 => pc # "raised"

\* C15: rendering a file is a pure function of the diff text, the full file
\* lines and the findings: a second render of equal inputs, in the same run
\* or in another run of the program, returns the same rows, cell by cell,
\* annotation rows and expand controls included.
C15_PureRender ==
    (render_no = 2 /\ pc = "rendered") => html_lines = first_html

\* the scan results panel of the page is rendered
PanelRendered == pc \in {"page", "loaded"}

\* C16: the anchor id of the annotation row of a finding depends only on the
\* file and the line of the finding, and equals the jump target the findings
\* panel emits for the same finding, in a real and in a synthetic hunk.
C16_AnchorIsPanelTarget ==
    PanelRendered =>
      \A i \in 1..Len(html_lines) :
         html_lines[i].cls = "scan-result" =>
            /\ \E k \in 1..Len(panel) :
                  /\ panel[k].line = html_lines[i].ann
                  /\ panel[k].jump = html_lines[i].id
            /\ \A j \in 1..Len(html_lines) :
                  (/\ html_lines[j].cls = "scan-result"
                   /\ html_lines[j].ann = html_lines[i].ann)
                  => html_lines[j].id = html_lines[i].id

\* one finding has an annotation row in a real hunk and another one in a
\* synthetic hunk, and the panel lists it
C16_Witness ==
    /\ PanelRendered
    /\ \E i, j \in 1..Len(html_lines) :
         /\ html_lines[i].cls = "scan-result"
         /\ html_lines[j].cls = "scan-result"
         /\ html_lines[i].src = "real_diff"
         /\ html_lines[j].src = "scan_context"
         /\ html_lines[i].ann = html_lines[j].ann
         /\ \E k \in 1..Len(panel) : panel[k].line = html_lines[i].ann

(***************************************************************************)
(* Claims about the finding aligner and the coverage.                      *)
(***************************************************************************)
\* the window [max(1, L-10), min(lastLine, L+10)] of the finding at line L
Window(L) ==
    { x \in 1..full_len : L - ContextRadius <= x /\ x <= L + ContextRadius }

\* the maximal runs <<a, b>> of consecutive uncovered lines of the window:
\* a run starts at an uncovered line whose predecessor is covered or outside
\* the window and ends at the first line whose successor is
MaximalRuns(L) ==
    LET W == Window(L)
        open(x) == x \in W /\ x \notin covered_lines
    IN { <<a, CHOOSE b \in W :
                 /\ a <= b
                 /\ ~open(b + 1)
                 /\ \A x \in a..b : open(x)>> :
           a \in { x \in W : open(x) /\ ~open(x - 1) } }

\* the indices of the synthetic hunks triggered by the finding at line L
SynthOf(L) == { i \in SynthIdx : all_hunks[i].scan_line = L }

Range(h) == <<h.new_start, HunkEnd(h)>>

\* C17: for an uncovered finding at line L the synthetic hunks created for L
\* are exactly the maximal runs of consecutive uncovered line numbers of the
\* window [max(1, L-10), min(lastLine, L+10)], one hunk per run: they hold no
\* covered line, are pairwise disjoint and together hold every uncovered
\* line of the window; with no covered line in the window it is the single
\* hunk spanning the window.
C17_SegmentsAreMaximalRuns ==
    HunksBuilt =>
      \A L \in scan_results \ covered_lines :
         /\ { Range(all_hunks[i]) : i \in SynthOf(L) } = MaximalRuns(L)
         /\ Cardinality(SynthOf(L)) = Cardinality(MaximalRuns(L))
         /\ (Window(L) \cap covered_lines = {} /\ Window(L) # {}) =>
               \E i \in SynthOf(L) :
                  \A x \in Window(L) : InHunk(all_hunks[i], x)

\* an uncovered finding whose window is cut in two runs by covered lines
C17_Witness ==
    /\ HunksBuilt
    /\ \E L \in scan_results \ covered_lines :
         /\ Cardinality(SynthOf(L)) = 2
         /\ Window(L) \cap covered_lines # {}

\* the index of the hunk header row that opens the hunk of row i
HeaderOf(rows, i) ==
    CHOOSE h \in 0..i :
       /\ h = 0 \/ rows[h].cls = "diff-hunk-header"
       /\ \A k \in (h + 1)..i : rows[k].cls # "diff-hunk-header"

\* C18: when the line L of a finding is in coveredLines, no synthetic hunk
\* with triggeringLine L is created and the annotation row of the finding is
\* emitted inside the real hunk whose rows include new-line number L.
C18_CoveredFindingInline ==
    Rendered =>
      \A L \in scan_results \cap covered_lines :
         /\ SynthOf(L) = {}
         /\ \E i \in AnnotationRows(html_lines, L) :
               /\ html_lines[i].src = "real_diff"
               /\ \E j \in 1..Len(html_lines) :
                     /\ html_lines[j].src = "real_diff"
                     /\ html_lines[j].new = L
                     /\ HeaderOf(html_lines, j) = HeaderOf(html_lines, i)

\* a covered finding whose window also holds uncovered lines
C18_Witness ==
    /\ Rendered
    /\ \E L \in scan_results \cap covered_lines :
         /\ Window(L) \ covered_lines # {}
         /\ AnnotationRows(html_lines, L) # {}

\* C19: synthetic hunks of different findings are never merged, also when
\* their ranges touch or overlap: the final hunk list holds the real hunks
\* and one separate synthetic hunk per segment of every uncovered finding,
\* each with its own start, end and triggeringLine, and the sort by start
\* line has only reordered them.
C19_NeverMerged ==
    HunksBuilt =>
      /\ \A L \in scan_results \ covered_lines :
            \A r \in MaximalRuns(L) :
               Cardinality({ i \in SynthOf(L) : Range(all_hunks[i]) = r }) = 1
      /\ \A i \in SynthIdx :
            /\ all_hunks[i].scan_line \in scan_results \ covered_lines
            /\ Range(all_hunks[i]) \in MaximalRuns(all_hunks[i].scan_line)
      /\ LET parsed == ParseHunks(diff_text)
         IN /\ { all_hunks[i] : i \in RealIdx }
                 = { parsed[k] : k \in 1..Len(parsed) }
            /\ Cardinality(RealIdx) = Len(parsed)
      /\ \A i \in 1..(Len(all_hunks) - 1) :
            all_hunks[i].new_start <= all_hunks[i + 1].new_start

\* two findings whose synthetic hunks overlap, both in the sorted list
C19_Witness ==
    /\ HunksBuilt
    /\ \E i, j \in SynthIdx :
         /\ i < j
         /\ all_hunks[i].scan_line # all_hunks[j].scan_line
         /\ HunkEnd(all_hunks[i]) >= all_hunks[j].new_start

\* C20: coveredLines is exactly the set of new-file line numbers shown on
\* the added and context rows that _render_real_diff_hunk emits over all
\* real hunks of the file; removed lines and lines of any other kind add
\* nothing to it and do not advance the new-line counter.
C20_CoverageIsRenderedNumbers ==
    Rendered =>
      covered_lines =
        { html_lines[i].new :
            i \in { k \in 1..Len(html_lines) :
                      /\ html_lines[k].src = "real_diff"
                      /\ html_lines[k].cls \in {"diff-added", "diff-context"} } }

\* a rendered real hunk with a removed line before an added or context line
C20_Witness ==
    /\ Rendered
    /\ \E i, j \in 1..Len(html_lines) :
         /\ i < j
         /\ html_lines[i].cls = "diff-removed"
         /\ html_lines[j].cls \in {"diff-added", "diff-context"}
         /\ HeaderOf(html_lines, i) = HeaderOf(html_lines, j)
         /\ html_lines[j].new \in covered_lines

\* C21: within one real diff hunk a finding is emitted at most once, also
\* when its line number is visited more than once during the replay of the
\* hunk, as the old number of a removed row and as the new number of an
\* added or context row.
C21_OncePerRealHunk ==
    Rendered =>
      \A i, j \in 1..Len(html_lines) :
         (/\ i < j
          /\ html_lines[i].cls = "scan-result"
          /\ html_lines[j].cls = "scan-result"
          /\ html_lines[i].src = "real_diff"
          /\ html_lines[j].src = "real_diff"
          /\ html_lines[i].ann = html_lines[j].ann)
         => HeaderOf(html_lines, i) # HeaderOf(html_lines, j)

\* a real hunk shows the line of a finding as the old number of a removed
\* row and again as the new number of an added or context row
C21_Witness ==
    /\ Rendered
    /\ \E i, j \in 1..Len(html_lines) :
         /\ html_lines[i].cls = "diff-removed"
         /\ html_lines[j].cls \in {"diff-added", "diff-context"}
         /\ html_lines[i].old = html_lines[j].new
         /\ html_lines[i].old \in scan_results
         /\ HeaderOf(html_lines, i) = HeaderOf(html_lines, j)
         /\ AnnotationRows(html_lines, html_lines[i].old) # {}

\* the diff is parsed and no synthetic hunk is appended yet
Parsed == pc = "align" /\ scan_idx = 1

\* the indexes of the lines of the diff that the header pattern matches
MatchingLines == { i \in 1..Len(diff_text) : diff_text[i].k = "hdr" }

\* C22: the diff parser yields one hunk for every line that matches the
\* header pattern, in input order, with newStart = c and newCount = d, or 1
\* when d is omitted; a line that starts with "@@" and does not match yields
\* no hunk and does not stop the parsing of the following lines; a diff
\* with no matching line yields zero hunks.
C22_OneHunkPerHeader ==
    Parsed =>
      /\ Len(all_hunks) = Cardinality(MatchingLines)
      /\ \A k \in 1..Len(all_hunks) :
            /\ all_hunks[k].type = "real_diff"
            /\ all_hunks[k].diff_idx \in MatchingLines
            /\ all_hunks[k].new_start = diff_text[all_hunks[k].diff_idx].new_start
            /\ all_hunks[k].new_count =
                 IF diff_text[all_hunks[k].diff_idx].has_count
                 THEN diff_text[all_hunks[k].diff_idx].new_count
                 ELSE 1
      /\ \A k \in 1..(Len(all_hunks) - 1) :
            all_hunks[k].diff_idx < all_hunks[k + 1].diff_idx

\* a parsed diff with a malformed "@@" line ahead of a header that omits its
\* new count
C22_Witness ==
    /\ Parsed
    /\ \E i, j \in 1..Len(diff_text) :
         /\ i < j
         /\ diff_text[i].k = "bad"
         /\ diff_text[j].k = "hdr"
         /\ ~diff_text[j].has_count
    /\ all_hunks # <<>>

\* the diff yields zero hunks and the file has no findings
ZeroHunksNoFindings == ParseHunks(diff_text) = <<>> /\ scan_results = {}

\* the rows are one expand-below control over [1, last_line] and nothing else
OneGap(rows, last_line) ==
    /\ Len(rows) = 1
    /\ rows[1].cls = "expand-row"
    /\ rows[1].dir = "below"
    /\ rows[1].s = 1 /\ rows[1].e = last_line
    /\ rows[1].s10 = 1 /\ rows[1].e10 = last_line

MaxHtmlDiffLen == 4  \* most lines of a diff given to parse_diff_to_html

\* "@@ -1,2 +1,2 @@" and "@@ -11 +12 @@", a malformed "@@" line, an added, a
\* removed and a context line, and any other line
HtmlDiffLines ==
    { DiffLine("hdr", 1, 1, TRUE, 2),
      DiffLine("hdr", MaxLines - 1, MaxLines, FALSE, 0) }
    \cup BodyLines

\* the lines before the first "@@" line are the header of the diff, whatever
\* their first character ("--- a/f", "+++ b/f")
HtmlDiffTexts == SeqsUpTo(HtmlDiffLines, MaxHtmlDiffLen)

\* an element of the output: a <tr> of the table (line is the index of the
\* diff line it shows), a <div> of the diff header, or the diff-empty <div>
HtmlRow(cls, old, new, line) ==
    [cls |-> cls, old |-> old, new |-> new, line |-> line]

\* "if in_header and line.startswith('@@')"
FirstHunkHeader(line, header) == header /\ StartsWithAtAt(line)

\* old_line_num = int(match.group(1)), at the first "@@" line only
OldLineNumAt(line, header, old) ==
    IF FirstHunkHeader(line, header) /\ HeaderMatch(line)
    THEN line.old_start ELSE old

\* new_line_num = int(match.group(3)), at the first "@@" line only
NewLineNumAt(line, header, new) ==
    IF FirstHunkHeader(line, header) /\ HeaderMatch(line)
    THEN line.new_start ELSE new

\* the <div class='diff-header'> of the lines ahead of the first "@@" line
DiffHeaderRows(line, i, header) ==
    IF FirstHunkHeader(line, header)
    THEN [k \in 1..(i - 1) |-> HtmlRow("diff-header", Blank, Blank, k)]
    ELSE <<>>

\* "Process diff content": the row of one line of the diff
ContentRow(line, i, old, new) ==
    IF StartsWithAtAt(line) THEN HtmlRow("diff-hunk-header", Blank, Blank, i)
    ELSE IF line.k = "add" THEN HtmlRow("diff-added", Blank, new, i)
    ELSE IF line.k = "del" THEN HtmlRow("diff-removed", old, Blank, i)
    ELSE IF line.k = "ctx" THEN HtmlRow("diff-context", old, new, i)
    ELSE HtmlRow("", Blank, Blank, i)

\* OldLineNumAfter in which a removed line adds 1 as well
OldLineNumAfterCounting(line, old) ==
    IF line.k \in {"ctx", "del"} THEN old + 1 ELSE old

\* old_line_num += 1: on a context line only
OldLineNumAfter(line, old) == IF line.k = "ctx" THEN old + 1 ELSE old

\* new_line_num += 1: on an added and on a context line
NewLineNumAfter(line, new) == IF line.k \in {"add", "ctx"} THEN new + 1 ELSE new

\* parse_diff_to_html(diff_text) is called
InitHtml ==
    /\ diff_text \in HtmlDiffTexts
    /\ full_len = 1
    /\ scan_results = {}
    /\ pc = "idle"
    /\ all_hunks = <<>>
    /\ covered_lines = {}
    /\ scan_idx = 1
    /\ hunk_idx = 1
    /\ prev_hunk_end = 0
    /\ html_lines = <<>>
    /\ table = <<>>
    /\ fullClicks = 0
    /\ lastClick = NoClick
    /\ hash_seed = 0
    /\ render_no = 1
    /\ first_html = <<>>
    /\ panel = <<>>
    /\ line_i = 1
    /\ in_header = TRUE
    /\ old_line_num = 0
    /\ new_line_num = 0
    /\ diff_html = <<>>
    /\ html_pc = "loop"
    /\ LoadIdle
    /\ RunIdle

\* if not diff_text: return "<div class='diff-empty'>No changes</div>"
ReturnNoChanges ==
    /\ html_pc = "loop"
    /\ diff_text = <<>>
    /\ diff_html' = <<HtmlRow("diff-empty", Blank, Blank, 0)>>
    /\ html_pc' = "returned"
    /\ UNCHANGED <<line_i, in_header, old_line_num, new_line_num>>
    /\ UNCHANGED <<renderVars, loadVars, runVars>>

\* one iteration of "for i, line in enumerate(lines)"
ParseDiffToHtmlLine ==
    /\ html_pc = "loop"
    /\ diff_text # <<>>
    /\ line_i <= Len(diff_text)
    /\ LET line == diff_text[line_i]
           old == OldLineNumAt(line, in_header, old_line_num)
           new == NewLineNumAt(line, in_header, new_line_num)
           header == in_header /\ ~StartsWithAtAt(line)
       IN /\ in_header' = header
          /\ diff_html' = diff_html
                          \o DiffHeaderRows(line, line_i, in_header)
                          \o (IF header THEN <<>>
                              ELSE <<ContentRow(line, line_i, old, new)>>)
          /\ old_line_num' = IF header THEN old ELSE OldLineNumAfter(line, old)
          /\ new_line_num' = IF header THEN new ELSE NewLineNumAfter(line, new)
    /\ line_i' = line_i + 1
    /\ UNCHANGED html_pc
    /\ UNCHANGED <<renderVars, loadVars, runVars>>

\* return "\n".join(html_lines)
ParseDiffToHtmlReturn ==
    /\ html_pc = "loop"
    /\ diff_text # <<>>
    /\ line_i > Len(diff_text)
    /\ html_pc' = "returned"
    /\ UNCHANGED <<line_i, in_header, old_line_num, new_line_num, diff_html>>
    /\ UNCHANGED <<renderVars, loadVars, runVars>>

NextHtml ==
    \/ ReturnNoChanges
    \/ ParseDiffToHtmlLine
    \/ ParseDiffToHtmlReturn

SpecHtml == InitHtml /\ [][NextHtml]_vars

\* parse_diff_to_html has returned
HtmlReturned == html_pc = "returned"

\* C24: in parse_diff_to_html each removed line consumes exactly one
\* old-line-number slot and no new-line-number slot: consecutive removed
\* rows display consecutive old line numbers, and the context row that
\* follows removed rows displays the old number after the last of them.
C24_RemovedConsumesOldSlot ==
    HtmlReturned =>
      \A k \in 1..(Len(diff_html) - 1) :
         (/\ diff_html[k].cls = "diff-removed"
          /\ diff_html[k + 1].cls \in {"diff-removed", "diff-context"})
         => diff_html[k + 1].old = diff_html[k].old + 1

\* the rows of the hunk that the hunk header row at index h opens
RowsOfHunk(rows, h) ==
    { k \in (h + 1)..Len(rows) :
        \A m \in (h + 1)..k : rows[m].cls # "diff-hunk-header" }

\* the first of the rows of a set of indexes
FirstOf(S) == CHOOSE k \in S : \A m \in S : k <= m

\* C25: in parse_diff_to_html the rows of every hunk are numbered from the
\* header of that hunk: for each hunk of a multi-hunk diff, not only the
\* first, the first added or context row displays the newStart of the
\* header and the first removed or context row displays its oldStart.
C25_NumberedFromOwnHeader ==
    HtmlReturned =>
      \A h \in 1..Len(diff_html) :
         (/\ diff_html[h].cls = "diff-hunk-header"
          /\ HeaderMatch(diff_text[diff_html[h].line]))
         => LET header == diff_text[diff_html[h].line]
                news == { k \in RowsOfHunk(diff_html, h) :
                            diff_html[k].cls \in {"diff-added", "diff-context"} }
                olds == { k \in RowsOfHunk(diff_html, h) :
                            diff_html[k].cls \in {"diff-removed", "diff-context"} }
            IN /\ news # {} => diff_html[FirstOf(news)].new = header.new_start
               /\ olds # {} => diff_html[FirstOf(olds)].old = header.old_start

(***************************************************************************)
(* Claims about the expand-icon click handler.                             *)
(***************************************************************************)
IsControl(r) == r.cls = "expand-row"

\* the expand controls of a table, in the order of the table
Controls(rows) == SelectSeq(rows, IsControl)

\* the new-file line numbers of the rows inserted by the handler
ExpandedNumbers(rows) ==
    { rows[i].new : i \in { k \in 1..Len(rows) : rows[k].cls = "expanded-context" } }

Without(seq, k) == SubSeq(seq, 1, k - 1) \o SubSeq(seq, k + 1, Len(seq))

\* the position of the row at index tr among the controls of the table
ControlNo(tr) == Cardinality({ i \in ControlRows(table) : i <= tr })

\* the 10-line button of the control at tr processes a sub-window of at most
\* ten lines of its range, and the control is removed or narrowed in every
\* button to the part of the range not processed
TenClickNarrows(tr) ==
    LET r == table[tr]
        sub_start == IF r.dir = "above"
                     THEN Max(r.s10, r.e10 - ExpandStep) ELSE r.s10
        sub_end == IF r.dir = "below"
                   THEN Min(r.e10, r.s10 + ExpandStep) ELSE r.e10
        rest_start == IF r.dir = "above" THEN r.s10 ELSE sub_end + 1
        rest_end == IF r.dir = "above" THEN sub_start - 1 ELSE r.e10
    IN /\ sub_end - sub_start <= ExpandStep
       /\ ExpandedNumbers(table') \ ExpandedNumbers(table) \subseteq sub_start..sub_end
       /\ Controls(table') =
            IF rest_start > rest_end
            THEN Without(Controls(table), ControlNo(tr))
            ELSE [Controls(table) EXCEPT
                    ![ControlNo(tr)] = [r EXCEPT !.s10 = rest_start,
                                                 !.e10 = rest_end,
                                                 !.s = rest_start,
                                                 !.e = rest_end]]

\* the full button of the control at tr processes its whole range and the
\* control is removed
FullClickRemoves(tr) ==
    LET r == table[tr]
    IN /\ ExpandedNumbers(table') \ ExpandedNumbers(table) \subseteq r.s..r.e
       /\ Controls(table') = Without(Controls(table), ControlNo(tr))

\* C26: the 10-line variant of an expand control with range [s, e] processes
\* a sub-window of at most 10 line numbers (the last 10 of the range for
\* above-10, the first 10 for below-10) and inserts rows only for lines of
\* that sub-window; afterwards the control is removed if the sub-window
\* exhausted the range, and otherwise the range carried by each button of
\* the control row is narrowed to exactly the unprocessed part.  The full
\* variant processes the whole range and removes the control.
C26_ExpandNarrowsOrRemoves ==
    [][ \A tr \in 1..Len(table) :
           /\ Click(tr, "ten") => TenClickNarrows(tr)
           /\ Click(tr, "full") => FullClickRemoves(tr) ]_vars

\* C27: every expand control the renderer emits carries a range with
\* 1 <= rangeStart <= rangeEnd <= lastLine, for any parsed hunk headers,
\* hunks with newStart = 0 or newCount = 0 included.
C27_ControlRangeInFile ==
    Rendered =>
      \A c \in ControlRows(html_lines) :
         /\ 1 <= html_lines[c].s
         /\ html_lines[c].s <= html_lines[c].e
         /\ html_lines[c].e <= full_len
         /\ html_lines[c].s10 = html_lines[c].s
         /\ html_lines[c].e10 = html_lines[c].e

\* the number of added and context lines of the hunk body that starts at j
RECURSIVE BodyNewLines(_, _)
BodyNewLines(lines, j) ==
    IF j > Len(lines) \/ StartsWithAtAt(lines[j]) THEN 0
    ELSE (IF lines[j].k \in {"add", "ctx"} THEN 1 ELSE 0)
         + BodyNewLines(lines, j + 1)

\* the headers of the diff agree with their bodies, and the hunks are
\* ascending and do not overlap
WellFormed(lines) ==
    LET hunks == ParseHunks(lines)
    IN /\ \A i \in 1..Len(lines) : lines[i].k # "bad"
       /\ \A k \in 1..Len(hunks) :
             hunks[k].new_count = BodyNewLines(lines, hunks[k].diff_idx + 1)
       /\ \A k \in 1..(Len(hunks) - 1) :
             hunks[k].new_start + hunks[k].new_count <= hunks[k + 1].new_start

\* the new-file line numbers on the rows of the real and synthetic hunks
RenderedNumbers(rows) ==
    { rows[i].new :
        i \in { k \in 1..Len(rows) :
                  /\ rows[k].src \in {"real_diff", "scan_context"}
                  /\ rows[k].new # Blank } }

\* C28: for a diff whose hunk headers agree with their bodies (hunks
\* ascending and not overlapping) and any findings, no expand control the
\* renderer emits has a range that contains a line number rendered as a row
\* by a real or synthetic hunk: prevEnd never under-reports the highest line
\* already rendered.
C28_ControlsSkipRendered ==
    (Rendered /\ WellFormed(diff_text)) =>
      \A c \in ControlRows(html_lines) :
         \A x \in html_lines[c].s..html_lines[c].e :
            x \notin RenderedNumbers(html_lines)

\* the new-file line numbers of the rows that carry one, in table order
NewNumbers(rows) ==
    LET carries(r) == r.new # Blank
        shown == SelectSeq(rows, carries)
    IN [k \in 1..Len(shown) |-> shown[k].new]

\* C29: expansion preserves row order: from a table rendered from a
\* well-formed diff with no findings, after any sequence of expand
\* invocations (10-line and full variants of any controls, in any order) the
\* rows that carry a new-file line number are in strictly ascending order of
\* that number.
C29_ExpansionKeepsOrder ==
    (pc = "loaded" /\ WellFormed(diff_text) /\ scan_results = {}) =>
      \A k \in 1..(Len(NewNumbers(table)) - 1) :
         NewNumbers(table)[k] < NewNumbers(table)[k + 1]

(***************************************************************************)
(* The page of a long file: files of up to MaxLongFile lines, so that a    *)
(* control takes three 10-line clicks, with no diff and at most one        *)
(* finding, or with a diff of at most two lines and no finding.            *)
(***************************************************************************)
MaxLongFile == 24    \* longest full file of the long-file pages

ShortDiffTexts == { d \in DiffTexts : Len(d) <= 2 }

InitLongFile ==
    /\ \E n \in 0..MaxLongFile :
          \/ \E F \in FindingSets(1) : Inputs(<<>>, n, F)
          \/ \E d \in ShortDiffTexts : Inputs(d, n, {})
    /\ hash_seed = 0
    /\ render_no = 1
    /\ first_html = <<>>
    /\ panel = <<>>
    /\ pc = "parse"
    /\ all_hunks = <<>>
    /\ covered_lines = {}
    /\ scan_idx = 1
    /\ hunk_idx = 1
    /\ prev_hunk_end = 0
    /\ html_lines = <<>>
    /\ table = <<>>
    /\ fullClicks = 0
    /\ lastClick = NoClick
    /\ LoadIdle
    /\ RunIdle
    /\ HtmlIdle

SpecLongFile == InitLongFile /\ [][Next]_vars

\* the number of 10-line invocations a range of n lines takes: ceil(n / 10)
TenClicksFor(n) == (n + ExpandStep) \div (ExpandStep + 1)

\* the 10-line click on the control at tr: the full button of the control
\* still carries the range [s, e] the control was rendered with, the 10-line
\* button carries what is left of it
TenClickShrinks(tr) ==
    LET r == table[tr]
        n == r.e - r.s + 1
        left == r.e10 - r.s10 + 1
        done == (n - left) \div (ExpandStep + 1)
    IN /\ n >= 1
       /\ 1 <= left /\ left <= n
       /\ n - left = done * (ExpandStep + 1)
       /\ IF done + 1 = TenClicksFor(n)
          THEN Controls(table') = Without(Controls(table), ControlNo(tr))
          ELSE /\ Len(Controls(table')) = Len(Controls(table))
               /\ LET r2 == Controls(table')[ControlNo(tr)]
                      left2 == r2.e10 - r2.s10 + 1
                  IN /\ 1 <= left2
                     /\ left2 < left
                     /\ r.s10 <= r2.s10 /\ r2.e10 <= r.e10
                     /\ r2.s = r.s /\ r2.e = r.e

\* C30: repeated 10-line expansion terminates: from an expand control whose
\* range holds n >= 1 lines, every invocation of its 10-line variant
\* strictly shrinks the remaining range, and the control is removed after
\* exactly ceil(n/10) invocations.
C30_TenClicksTerminate ==
    [][ \A tr \in 1..Len(table) : Click(tr, "ten") => TenClickShrinks(tr) ]_vars

\* the only control of a page, rendered with a range of more than twenty
\* lines, is gone after 10-line clicks alone
C30_Witness ==
    /\ pc = "loaded"
    /\ fullClicks = 0
    /\ lastClick.variant = "ten"
    /\ Controls(table) = <<>>
    /\ Len(Controls(html_lines)) = 1
    /\ Controls(html_lines)[1].e - Controls(html_lines)[1].s + 1 > 2 * (ExpandStep + 1)

====
